---- MODULE Spec2Model ----
(***************************************************************************)
(* UserInfoDApp (app/page.tsx): a React component that connects a wallet,  *)
(* writes one profile record per account to the UserInfo contract and      *)
(* reads records back.  The state of the model is the component's useState *)
(* cells, the contract's `users` mapping, the pending setTimeout of the    *)
(* message effect, and the async handlers that are suspended at an await.  *)
(*                                                                         *)
(* Strings that the code only compares or displays (addresses, messages)   *)
(* are TLA+ strings.  Strings the code transforms (the three text fields,  *)
(* the age field) are sequences of characters.                             *)
(*                                                                         *)
(* An event fires only from an element that is rendered (the connect card  *)
(* while account is empty, everything else while it is set) and not        *)
(* disabled by `loading`.  Where a handler tests a condition itself        *)
(* (searchUser: !searchAddress; addUserInfo: the field checks that the     *)
(* inputs' required/min/max attributes repeat), the handler's own test is  *)
(* what the model takes, as a step of the handler.                         *)
(*                                                                         *)
(* A read is answered from the storage as it is when the answer arrives.   *)
(* A transaction whose tx.wait() throws is not applied.  The wallet names  *)
(* the same account to eth_requestAccounts and to getSigner.               *)
(***************************************************************************)
EXTENDS Integers, Sequences, FiniteSets, TLC

VARIABLES
    account,            \* useState<string>("")
    contract,           \* ethers.Contract | null : the account of its signer, or Null
    provider,           \* ethers.BrowserProvider | null : TRUE when present
    signer,             \* ethers.JsonRpcSigner | null : its account, or Null
    loading,            \* useState(false)
    error,              \* useState("")
    success,            \* useState("")
    formData,           \* {name, age, profession, bio}, all strings
    currentUserData,    \* UserData | null
    searchAddress,      \* useState("")
    searchedUserData,   \* UserData | null
    users,              \* contract storage: mapping (address => User)
    hasEthereum,        \* typeof window.ethereum !== "undefined"
    timer,              \* the pending setTimeout of the message effect: time left, or NoTimer
    conn,               \* connectWallet invocations suspended at an await
    sub,                \* the addUserInfo invocation suspended at an await
    srch,               \* the searchUser invocation suspended at an await
    curOwner,           \* history: the address currentUserData was read for
    sinceSet,           \* history: time since the last setError/setSuccess of a non-empty text
    lastCall            \* history: "searchUser" when the last step was a call of it,
                        \* "loadUserData" when it was the end of a search's read, else ""

vars == <<account, contract, provider, signer, loading, error, success, formData,
          currentUserData, searchAddress, searchedUserData, users, hasEthereum,
          timer, conn, sub, srch, curOwner, sinceSet, lastCall>>

session == <<account, contract, provider, signer>>
form    == <<formData>>
views   == <<currentUserData, curOwner, searchedUserData>>

----------------------------------------------------------------------------
(* Values *)

\* a null handle (contract, signer)
Null == "null"
\* a null UserData
NoData == [name |-> <<>>]
\* Number.NaN: no string of the model parses to this number
NaN == -1000000
\* no setTimeout is pending
NoTimer == -1

\* setTimeout(..., 5000): one unit of model time is one second
Duration == 5
\* age > 150
MaxAge == 150
\* how many connectWallet invocations may be suspended at once
MaxConnects == 1

SP   == " "
ZWSP == "u200B"
ZWNJ == "u200C"
ZWJ  == "u200D"
BOM  == "uFEFF"

Digits == <<"0", "1", "2", "3", "4", "5", "6", "7", "8", "9">>

\* String.prototype.trim removes WhiteSpace and LineTerminator; U+FEFF is WhiteSpace
IsWhiteSpace(c) == c \in {SP, BOM}
\* the class [\u200B-\u200D\uFEFF]
IsZeroWidth(c) == c \in {ZWSP, ZWNJ, ZWJ, BOM}

RECURSIVE TrimStart(_)
TrimStart(s) ==
    IF s # <<>> /\ IsWhiteSpace(Head(s)) THEN TrimStart(Tail(s)) ELSE s

RECURSIVE TrimEnd(_)
TrimEnd(s) ==
    IF s # <<>> /\ IsWhiteSpace(s[Len(s)]) THEN TrimEnd(SubSeq(s, 1, Len(s) - 1)) ELSE s

trim(s) == TrimEnd(TrimStart(s))

\* .replace(/[\u200B-\u200D\uFEFF]/g, "")
StripZeroWidth(s) == SelectSeq(s, LAMBDA c : ~IsZeroWidth(c))

\* formData.x.trim().replace(/[\u200B-\u200D\uFEFF]/g, "")
Sanitize(s) == StripZeroWidth(trim(s))

DigitValue(c) == (CHOOSE i \in 1..10 : Digits[i] = c) - 1
IsDigit(c) == \E i \in 1..10 : Digits[i] = c

RECURSIVE ParseDigits(_, _)
ParseDigits(s, acc) ==
    IF s # <<>> /\ IsDigit(Head(s))
    THEN ParseDigits(Tail(s), 10 * acc + DigitValue(Head(s)))
    ELSE acc

\* Number.parseInt(string): leading white space is skipped, an optional sign
\* is read, then the longest prefix of decimal digits; NaN when there is none.
parseInt(str) ==
    LET s    == TrimStart(str)
        neg  == s # <<>> /\ Head(s) = "-"
        body == IF s # <<>> /\ Head(s) \in {"-", "+"} THEN Tail(s) ELSE s
    IN  IF body = <<>> \/ ~IsDigit(Head(body)) THEN NaN
        ELSE IF neg THEN 0 - ParseDigits(body, 0) ELSE ParseDigits(body, 0)

isNaN(v) == v = NaN

\* a <= b and a > b on numbers: both are false when an operand is NaN
NumLe(a, b) == ~isNaN(a) /\ ~isNaN(b) /\ a <= b
NumGt(a, b) == ~isNaN(a) /\ ~isNaN(b) /\ a > b

\* the range check with age < 0 for age <= 0
AgeInvalidZeroAccepted(age) == isNaN(age) \/ NumLe(age, 0 - 1) \/ NumGt(age, MaxAge)

\* if (isNaN(age) || age <= 0 || age > 150)
AgeInvalid(age) == isNaN(age) \/ NumLe(age, 0) \/ NumGt(age, MaxAge)

\* if (!sanitizedX || sanitizedX.length === 0)
TextEmpty(s) == s = <<>> \/ Len(s) = 0

----------------------------------------------------------------------------
(* Inputs *)

Accounts == {"0xA", "0xB"}

\* what the user may type into the search box
AddressInputs == {"", "0xA", "0xB", "0xnot-an-address"}

\* an address check that only asks for the 0x prefix
isAddressByPrefix(a) == a # ""

\* ethers.isAddress
isAddress(a) == a \in Accounts

\* what the user may type into the form
NameInputs == { <<SP, "a", ZWSP>> }
ProfessionInputs == { <<"p">> }
BioInputs == { <<"q">> }
AgeInputs == { <<"1">> }
\* what the wallet and the chain may answer to a transaction
FaultInputs == {"user rejected"}

\* longest text and longest age the form is tried with
MaxTextLen == 2
MaxAgeLen == 3

RECURSIVE Strings(_, _)
Strings(chars, n) ==
    IF n = 0 THEN { <<>> }
    ELSE LET shorter == Strings(chars, n - 1)
         IN  shorter \cup { Append(s, c) : s \in shorter, c \in chars }

\* every content of the form up to those lengths
FormInputs ==
    [name       : Strings({"a", SP, ZWSP, BOM}, MaxTextLen),
     age        : Strings({"0", "1", "5", "-"}, MaxAgeLen),
     profession : { <<>>, <<"p">>, <<ZWSP>> },
     bio        : { <<>>, <<"q">> }]

EmptyForm == [name |-> <<>>, age |-> <<>>, profession |-> <<>>, bio |-> <<>>]

\* Solidity's default User: users[a] of an address never written
NoUser == [name |-> <<>>, age |-> 0, profession |-> <<>>, bio |-> <<>>]

----------------------------------------------------------------------------
(* Messages *)

MsgInstall        == "Please install MetaMask to use this application"
MsgConnectFailed  == "Failed to connect wallet: ..."
MsgConnected      == "Wallet connected successfully!"
MsgDisconnected   == "Wallet disconnected successfully!"
MsgConnectFirst   == "Please connect your wallet first"
MsgNameEmpty      == "Name cannot be empty"
MsgProfEmpty      == "Profession cannot be empty"
MsgBioEmpty       == "Bio cannot be empty"
MsgAgeInvalid     == "Please enter a valid age between 1 and 150"
MsgAdded          == "User information added successfully!"
MsgInvalidInput   == "Invalid input data. Please check your entries and try again."
MsgTxFailed       == "Transaction failed. Please check your inputs and try again."
MsgRejected       == "Transaction was rejected by user"
MsgFunds          == "Insufficient funds to complete the transaction"
MsgAddFailed      == "Failed to add user info: ..."
MsgBadAddress     == "Please enter a valid Ethereum address"

\* what contract.addUserInfo(...) or tx.wait() may throw
Faults == {"INVALID_ARGUMENT", "UNPREDICTABLE_GAS_LIMIT", "user rejected",
           "insufficient funds", "other"}

\* a catch block that sets no message
ClassifyErrorSilent(err) == ""

\* the catch block of addUserInfo
ClassifyError(err) ==
    CASE err = "INVALID_ARGUMENT"        -> MsgInvalidInput
      [] err = "UNPREDICTABLE_GAS_LIMIT" -> MsgTxFailed
      [] err = "user rejected"           -> MsgRejected
      [] err = "insufficient funds"      -> MsgFunds
      [] OTHER                           -> MsgAddFailed

\* The effect with dependencies [error, success]: it runs again only when one
\* of the two values has changed; its cleanup cancels the pending timer, and
\* a new one is started when either message is non-empty.
EffectTimer(e, s) ==
    IF <<e, s>> # <<error, success>>
    THEN IF e # "" \/ s # "" THEN Duration ELSE NoTimer
    ELSE timer

\* The handler's segment leaves error = e and success = s; wasSet tells
\* whether it called setError or setSuccess with a non-empty text.
Messages(e, s, wasSet) ==
    /\ error' = e
    /\ success' = s
    /\ timer' = EffectTimer(e, s)
    /\ sinceSet' = IF e = "" /\ s = "" THEN 0 ELSE IF wasSet THEN 0 ELSE sinceSet

NoMessages == UNCHANGED <<error, success, timer, sinceSet>>

----------------------------------------------------------------------------
(* Suspended handlers *)

NoConn == [req |-> 0, sign |-> [a \in Accounts |-> 0], read |-> [a \in Accounts |-> 0]]
Sum(f) == f["0xA"] + f["0xB"]
ConnCount == conn.req + Sum(conn.sign) + Sum(conn.read)

SubIdle == [pc |-> "idle"]
SrchIdle == [pc |-> "idle"]

\* every returned tuple taken for a record
ToUserDataAlways(u) ==
    [name |-> u.name, age |-> u.age, profession |-> u.profession, bio |-> u.bio]

\* userData[0] && userData[0].length > 0 ? {name, age: Number(...), ...} : null
ToUserData(u) ==
    IF u.name # <<>> /\ Len(u.name) > 0
    THEN [name |-> u.name, age |-> u.age, profession |-> u.profession, bio |-> u.bio]
    ELSE NoData

Init ==
    /\ account = ""
    /\ contract = Null
    /\ provider = FALSE
    /\ signer = Null
    /\ loading = FALSE
    /\ error = ""
    /\ success = ""
    /\ formData = EmptyForm
    /\ currentUserData = NoData
    /\ searchAddress = ""
    /\ searchedUserData = NoData
    /\ users = [a \in Accounts |-> NoUser]
    /\ hasEthereum \in BOOLEAN
    /\ timer = NoTimer
    /\ conn = NoConn
    /\ sub = SubIdle
    /\ srch = SrchIdle
    /\ curOwner = ""
    /\ sinceSet = 0
    /\ lastCall = ""

----------------------------------------------------------------------------
(* connectWallet *)

\* window.ethereum is undefined
connectWalletNoProvider ==
    /\ account = ""
    /\ ~hasEthereum
    /\ Messages(MsgInstall, success, TRUE)
    /\ lastCall' = ""
    /\ UNCHANGED <<session, loading, form, views, searchAddress, users, hasEthereum,
                   conn, sub, srch>>

\* up to: await provider.send("eth_requestAccounts", [])
connectWalletRequest ==
    /\ account = ""
    /\ hasEthereum
    /\ ConnCount < MaxConnects
    /\ conn' = [conn EXCEPT !.req = @ + 1]
    /\ NoMessages
    /\ lastCall' = ""
    /\ UNCHANGED <<session, loading, form, views, searchAddress, users, hasEthereum,
                   sub, srch>>

\* the wallet grants accounts[0] = a; up to: await provider.getSigner()
connectWalletAccounts(a) ==
    /\ conn.req > 0
    /\ conn' = [conn EXCEPT !.req = @ - 1, !.sign[a] = @ + 1]
    /\ NoMessages
    /\ lastCall' = ""
    /\ UNCHANGED <<session, loading, form, views, searchAddress, users, hasEthereum,
                   sub, srch>>

\* a connectWallet that has set the provider before the request is declined
connectWalletRequestFailsProviderKept ==
    /\ conn.req > 0
    /\ conn' = [conn EXCEPT !.req = @ - 1]
    /\ provider' = TRUE
    /\ Messages(MsgConnectFailed, success, TRUE)
    /\ lastCall' = ""
    /\ UNCHANGED <<account, contract, signer, loading, form, views, searchAddress, users,
                   hasEthereum, sub, srch>>

\* eth_requestAccounts is declined or fails: the catch block
connectWalletRequestFails ==
    /\ conn.req > 0
    /\ conn' = [conn EXCEPT !.req = @ - 1]
    /\ Messages(MsgConnectFailed, success, TRUE)
    /\ lastCall' = ""
    /\ UNCHANGED <<session, loading, form, views, searchAddress, users, hasEthereum,
                   sub, srch>>

\* getSigner fails: the catch block
connectWalletSignerFails(a) ==
    /\ conn.sign[a] > 0
    /\ conn' = [conn EXCEPT !.sign[a] = @ - 1]
    /\ Messages(MsgConnectFailed, success, TRUE)
    /\ lastCall' = ""
    /\ UNCHANGED <<session, loading, form, views, searchAddress, users, hasEthereum,
                   sub, srch>>

\* getSigner resolves: the four setters, the two messages, and
\* loadUserDataForCurrentUser(accounts[0], contract) up to its await
connectWalletConnected(a) ==
    /\ conn.sign[a] > 0
    /\ provider' = TRUE
    /\ signer' = a
    /\ contract' = a
    /\ account' = a
    /\ Messages("", MsgConnected, TRUE)
    /\ conn' = [conn EXCEPT !.sign[a] = @ - 1, !.read[a] = @ + 1]
    /\ lastCall' = ""
    /\ UNCHANGED <<loading, form, views, searchAddress, users, hasEthereum, sub, srch>>

\* loadUserDataForCurrentUser after its await: getUserInfo(a) answers (ok) or throws
connectWalletLoaded(a, ok) ==
    /\ conn.read[a] > 0
    /\ conn' = [conn EXCEPT !.read[a] = @ - 1]
    /\ currentUserData' = IF ok THEN ToUserData(users[a]) ELSE NoData
    /\ curOwner' = IF ok /\ ToUserData(users[a]) # NoData THEN a ELSE ""
    /\ NoMessages
    /\ lastCall' = ""
    /\ UNCHANGED <<session, loading, form, searchedUserData, searchAddress, users,
                   hasEthereum, sub, srch>>

----------------------------------------------------------------------------
(* disconnectWallet *)

\* disconnectWallet without its setSigner(null)
disconnectWalletKeepsSigner ==
    /\ account # ""
    /\ provider' = FALSE
    /\ contract' = Null
    /\ account' = ""
    /\ currentUserData' = NoData
    /\ curOwner' = ""
    /\ searchedUserData' = NoData
    /\ searchAddress' = ""
    /\ formData' = EmptyForm
    /\ Messages("", MsgDisconnected, TRUE)
    /\ lastCall' = ""
    /\ UNCHANGED <<signer, loading, users, hasEthereum, conn, sub, srch>>

\* disconnectWallet without its setFormData
disconnectWalletKeepsForm ==
    /\ account # ""
    /\ provider' = FALSE
    /\ signer' = Null
    /\ contract' = Null
    /\ account' = ""
    /\ currentUserData' = NoData
    /\ curOwner' = ""
    /\ searchedUserData' = NoData
    /\ searchAddress' = ""
    /\ Messages("", MsgDisconnected, TRUE)
    /\ lastCall' = ""
    /\ UNCHANGED <<loading, form, users, hasEthereum, conn, sub, srch>>

disconnectWallet ==
    /\ account # ""
    /\ provider' = FALSE
    /\ signer' = Null
    /\ contract' = Null
    /\ account' = ""
    /\ currentUserData' = NoData
    /\ curOwner' = ""
    /\ searchedUserData' = NoData
    /\ searchAddress' = ""
    /\ formData' = EmptyForm
    /\ Messages("", MsgDisconnected, TRUE)
    /\ lastCall' = ""
    /\ UNCHANGED <<loading, users, hasEthereum, conn, sub, srch>>

----------------------------------------------------------------------------
(* the form's onChange handlers *)

ChangeName(v) ==
    /\ account # ""
    /\ formData' = [formData EXCEPT !.name = v]
    /\ NoMessages
    /\ lastCall' = ""
    /\ UNCHANGED <<session, loading, views, searchAddress, users, hasEthereum,
                   conn, sub, srch>>

ChangeAge(v) ==
    /\ account # ""
    /\ formData' = [formData EXCEPT !.age = v]
    /\ NoMessages
    /\ lastCall' = ""
    /\ UNCHANGED <<session, loading, views, searchAddress, users, hasEthereum,
                   conn, sub, srch>>

ChangeProfession(v) ==
    /\ account # ""
    /\ formData' = [formData EXCEPT !.profession = v]
    /\ NoMessages
    /\ lastCall' = ""
    /\ UNCHANGED <<session, loading, views, searchAddress, users, hasEthereum,
                   conn, sub, srch>>

ChangeBio(v) ==
    /\ account # ""
    /\ formData' = [formData EXCEPT !.bio = v]
    /\ NoMessages
    /\ lastCall' = ""
    /\ UNCHANGED <<session, loading, views, searchAddress, users, hasEthereum,
                   conn, sub, srch>>

ChangeSearchAddress(v) ==
    /\ account # ""
    /\ searchAddress' = v
    /\ NoMessages
    /\ lastCall' = ""
    /\ UNCHANGED <<session, loading, form, views, users, hasEthereum, conn, sub, srch>>

----------------------------------------------------------------------------
(* addUserInfo *)

\* the form's values passed as they are, the age still parsed
RawArgs(f) ==
    [name |-> f.name, age |-> parseInt(f.age), profession |-> f.profession, bio |-> f.bio]

\* the arguments of contract.addUserInfo(sanitizedName, age, sanitizedProfession, sanitizedBio)
SanitizedArgs(f) ==
    [name       |-> Sanitize(f.name),
     age        |-> parseInt(f.age),
     profession |-> Sanitize(f.profession),
     bio        |-> Sanitize(f.bio)]

\* the message of the first failing check, "" when all pass
ValidationError(f) ==
    IF TextEmpty(Sanitize(f.name)) THEN MsgNameEmpty
    ELSE IF TextEmpty(Sanitize(f.profession)) THEN MsgProfEmpty
    ELSE IF TextEmpty(Sanitize(f.bio)) THEN MsgBioEmpty
    ELSE IF AgeInvalid(parseInt(f.age)) THEN MsgAgeInvalid
    ELSE ""

\* if (!contract || !signer)
NotConnected == contract = Null \/ signer = Null

\* the form is rendered while account is set, its button is disabled while loading
addUserInfoRejected ==
    /\ account # ""
    /\ ~loading
    /\ NotConnected \/ ValidationError(formData) # ""
    /\ Messages(IF NotConnected THEN MsgConnectFirst ELSE ValidationError(formData),
                success, TRUE)
    /\ lastCall' = ""
    /\ UNCHANGED <<session, loading, form, views, searchAddress, users, hasEthereum,
                   conn, sub, srch>>

\* setLoading(true), setError(""), up to: await contract.addUserInfo(...)
addUserInfoCall ==
    /\ account # ""
    /\ ~loading
    /\ ~NotConnected
    /\ ValidationError(formData) = ""
    /\ loading' = TRUE
    /\ Messages("", success, FALSE)
    /\ sub' = [pc |-> "sending", contract |-> contract, account |-> account,
               args |-> SanitizedArgs(formData)]
    /\ lastCall' = ""
    /\ UNCHANGED <<session, form, views, searchAddress, users, hasEthereum, conn, srch>>

\* the handler up to its first await or return
addUserInfo == addUserInfoRejected \/ addUserInfoCall

\* a catch block with no finally: loading stays set
addUserInfoSendFailsKeepsLoading(err) ==
    /\ sub.pc = "sending"
    /\ Messages(ClassifyError(err), success, TRUE)
    /\ sub' = SubIdle
    /\ lastCall' = ""
    /\ UNCHANGED <<session, loading, form, views, searchAddress, users, hasEthereum,
                   conn, srch>>

\* contract.addUserInfo throws: catch, finally
addUserInfoSendFails(err) ==
    /\ sub.pc = "sending"
    /\ Messages(ClassifyError(err), success, TRUE)
    /\ loading' = FALSE
    /\ sub' = SubIdle
    /\ lastCall' = ""
    /\ UNCHANGED <<session, form, views, searchAddress, users, hasEthereum, conn, srch>>

\* success announced as soon as the transaction is accepted
addUserInfoSentAnnounced ==
    /\ sub.pc = "sending"
    /\ sub' = [sub EXCEPT !.pc = "waiting"]
    /\ Messages(error, MsgAdded, TRUE)
    /\ lastCall' = ""
    /\ UNCHANGED <<session, loading, form, views, searchAddress, users, hasEthereum,
                   conn, srch>>

\* the transaction is accepted; up to: await tx.wait()
addUserInfoSent ==
    /\ sub.pc = "sending"
    /\ sub' = [sub EXCEPT !.pc = "waiting"]
    /\ NoMessages
    /\ lastCall' = ""
    /\ UNCHANGED <<session, loading, form, views, searchAddress, users, hasEthereum,
                   conn, srch>>

\* a handler that sends the transaction again when tx.wait() throws
addUserInfoWaitFailsResends(err) ==
    /\ sub.pc = "waiting"
    /\ sub' = [sub EXCEPT !.pc = "sending"]
    /\ NoMessages
    /\ lastCall' = ""
    /\ UNCHANGED <<session, loading, form, views, searchAddress, users, hasEthereum,
                   conn, srch>>

\* tx.wait() throws (the transaction is not applied): catch, finally
addUserInfoWaitFails(err) ==
    /\ sub.pc = "waiting"
    /\ Messages(ClassifyError(err), success, TRUE)
    /\ loading' = FALSE
    /\ sub' = SubIdle
    /\ lastCall' = ""
    /\ UNCHANGED <<session, form, views, searchAddress, users, hasEthereum, conn, srch>>

\* a store that writes the record to every account
StoreWriteAll(u, sender, args) == [a \in DOMAIN u |-> args]

\* a store that keeps the first record of an account
StoreWriteOnce(u, sender, args) ==
    IF u[sender] = NoUser THEN [u EXCEPT ![sender] = args] ELSE u

\* users[msg.sender] = User(_name, _age, _profession, _bio)
StoreWrite(u, sender, args) == [u EXCEPT ![sender] = args]

\* the contract applies the transaction and tx.wait() resolves: setSuccess, then
\* loadUserDataForCurrentUser(account) up to its await
addUserInfoConfirmed ==
    /\ sub.pc = "waiting"
    /\ users' = StoreWrite(users, sub.contract, sub.args)
    /\ Messages(error, MsgAdded, TRUE)
    /\ sub' = [sub EXCEPT !.pc = "reading"]
    /\ lastCall' = ""
    /\ UNCHANGED <<session, loading, form, views, searchAddress, hasEthereum, conn, srch>>

\* a handler that resets the form only when the refresh read was answered
addUserInfoLoadedKeepsFormOnError(ok) ==
    /\ sub.pc = "reading"
    /\ currentUserData' = IF ok THEN ToUserData(users[sub.account]) ELSE NoData
    /\ curOwner' = IF ok /\ ToUserData(users[sub.account]) # NoData THEN sub.account ELSE ""
    /\ formData' = IF ok THEN EmptyForm ELSE formData
    /\ loading' = FALSE
    /\ sub' = SubIdle
    /\ NoMessages
    /\ lastCall' = ""
    /\ UNCHANGED <<session, searchedUserData, searchAddress, users, hasEthereum, conn, srch>>

\* getUserInfo(account) answers (ok) or throws; then setFormData(empty), finally
addUserInfoLoaded(ok) ==
    /\ sub.pc = "reading"
    /\ currentUserData' = IF ok THEN ToUserData(users[sub.account]) ELSE NoData
    /\ curOwner' = IF ok /\ ToUserData(users[sub.account]) # NoData THEN sub.account ELSE ""
    /\ formData' = EmptyForm
    /\ loading' = FALSE
    /\ sub' = SubIdle
    /\ NoMessages
    /\ lastCall' = ""
    /\ UNCHANGED <<session, searchedUserData, searchAddress, users, hasEthereum, conn, srch>>

----------------------------------------------------------------------------
(* searchUser *)

\* if (!contract || !searchAddress) return
searchUserIgnored ==
    /\ account # ""
    /\ ~loading
    /\ contract = Null \/ searchAddress = ""
    /\ lastCall' = "searchUser"
    /\ NoMessages
    /\ UNCHANGED <<session, loading, form, views, searchAddress, users, hasEthereum,
                   conn, sub, srch>>

\* if (!ethers.isAddress(searchAddress))
searchUserInvalid ==
    /\ account # ""
    /\ ~loading
    /\ ~(contract = Null \/ searchAddress = "")
    /\ ~isAddress(searchAddress)
    /\ Messages(MsgBadAddress, success, TRUE)
    /\ lastCall' = "searchUser"
    /\ UNCHANGED <<session, loading, form, views, searchAddress, users, hasEthereum,
                   conn, sub, srch>>

\* a search whose button is not disabled while loading
searchUserCallWhileLoading ==
    /\ account # ""
    /\ ~(contract = Null \/ searchAddress = "")
    /\ isAddress(searchAddress)
    /\ loading' = TRUE
    /\ Messages("", success, FALSE)
    /\ searchedUserData' = NoData
    /\ srch' = [pc |-> "reading", address |-> searchAddress]
    /\ lastCall' = "searchUser"
    /\ UNCHANGED <<session, form, currentUserData, curOwner, searchAddress, users,
                   hasEthereum, conn, sub>>

\* a search that clears the own-profile view along with the previous result
searchUserCallClearsBoth ==
    /\ account # ""
    /\ ~loading
    /\ ~(contract = Null \/ searchAddress = "")
    /\ isAddress(searchAddress)
    /\ loading' = TRUE
    /\ Messages("", success, FALSE)
    /\ searchedUserData' = NoData
    /\ currentUserData' = NoData
    /\ curOwner' = ""
    /\ srch' = [pc |-> "reading", address |-> searchAddress]
    /\ lastCall' = "searchUser"
    /\ UNCHANGED <<session, form, searchAddress, users, hasEthereum, conn, sub>>

\* setLoading(true), setError(""), setSearchedUserData(null), loadUserData up to its await
searchUserCall ==
    /\ account # ""
    /\ ~loading
    /\ ~(contract = Null \/ searchAddress = "")
    /\ isAddress(searchAddress)
    /\ loading' = TRUE
    /\ Messages("", success, FALSE)
    /\ searchedUserData' = NoData
    /\ srch' = [pc |-> "reading", address |-> searchAddress]
    /\ lastCall' = "searchUser"
    /\ UNCHANGED <<session, form, currentUserData, curOwner, searchAddress, users,
                   hasEthereum, conn, sub>>

\* getUserInfo(address) answers (ok) or throws; finally
searchUserLoaded(ok) ==
    /\ srch.pc = "reading"
    /\ searchedUserData' = IF ok THEN ToUserData(users[srch.address]) ELSE NoData
    /\ loading' = FALSE
    /\ srch' = SrchIdle
    /\ NoMessages
    /\ lastCall' = "loadUserData"
    /\ UNCHANGED <<session, form, currentUserData, curOwner, searchAddress, users,
                   hasEthereum, conn, sub>>

----------------------------------------------------------------------------
(* the message timer *)

\* one unit of time passes while a timer is pending
Tick ==
    /\ timer # NoTimer
    /\ timer > 0
    /\ timer' = timer - 1
    /\ sinceSet' = sinceSet + 1
    /\ lastCall' = ""
    /\ UNCHANGED <<session, loading, error, success, form, views, searchAddress, users,
                   hasEthereum, conn, sub, srch>>

\* the setTimeout callback: setError(""), setSuccess("")
clearMessages ==
    /\ timer # NoTimer
    /\ Messages("", "", FALSE)
    /\ lastCall' = ""
    /\ UNCHANGED <<session, loading, form, views, searchAddress, users, hasEthereum,
                   conn, sub, srch>>

\* the callback runs when the 5000 ms have passed
TimerDue ==
    /\ timer = 0
    /\ clearMessages

\* Every handler, with the inputs drawn from the given sets.
Handlers(accts, names, ages, profs, bios, addrs, faults) ==
    \/ connectWalletNoProvider
    \/ connectWalletRequest
    \/ \E a \in accts : connectWalletAccounts(a)
    \/ connectWalletRequestFails
    \/ \E a \in accts : connectWalletSignerFails(a)
    \/ \E a \in accts : connectWalletConnected(a)
    \/ \E a \in accts, ok \in BOOLEAN : connectWalletLoaded(a, ok)
    \/ disconnectWallet
    \/ \E v \in names : ChangeName(v)
    \/ \E v \in ages : ChangeAge(v)
    \/ \E v \in profs : ChangeProfession(v)
    \/ \E v \in bios : ChangeBio(v)
    \/ \E v \in addrs : ChangeSearchAddress(v)
    \/ addUserInfoRejected
    \/ addUserInfoCall
    \/ \E err \in faults : addUserInfoSendFails(err)
    \/ addUserInfoSent
    \/ \E err \in faults : addUserInfoWaitFails(err)
    \/ addUserInfoConfirmed
    \/ \E ok \in BOOLEAN : addUserInfoLoaded(ok)
    \/ searchUserIgnored
    \/ searchUserInvalid
    \/ searchUserCall
    \/ \E ok \in BOOLEAN : searchUserLoaded(ok)

\* The component with time abstracted: the timer callback may run at any
\* moment while a timer is pending.
Next ==
    \/ Handlers(Accounts, NameInputs, AgeInputs, ProfessionInputs, BioInputs,
                AddressInputs, FaultInputs)
    \/ clearMessages

Spec == Init /\ [][Next]_vars

\* The component with a clock.
NextTimed ==
    \/ Handlers({"0xA"}, {<<"a">>}, {<<"1">>}, {<<"p">>}, {<<"q">>},
                {"0xA", "0xnot-an-address"}, {"user rejected"})
    \/ Tick
    \/ TimerDue

SpecTimed == Init /\ [][NextTimed]_vars

\* what the wallet and the chain answer to a suspended addUserInfo: each of
\* its three awaits settles, by resolving or by throwing
SubmitAnswered ==
    \/ \E err \in Faults : addUserInfoSendFails(err)
    \/ addUserInfoSent
    \/ \E err \in Faults : addUserInfoWaitFails(err)
    \/ addUserInfoConfirmed
    \/ \E ok \in BOOLEAN : addUserInfoLoaded(ok)

\* The component of a user with one account, with every kind of fault, when
\* the wallet and the chain eventually answer a submit.
NextLive ==
    \/ Handlers({"0xA"}, NameInputs, AgeInputs, ProfessionInputs, BioInputs,
                {"0xA", "0xnot-an-address"}, Faults)
    \/ clearMessages

SpecLive == Init /\ [][NextLive]_vars /\ WF_vars(SubmitAnswered)

\* The submit handler on every form content: a session connected as 0xA in
\* which the user has typed the form in.
InitSubmit ==
    /\ account = "0xA"
    /\ contract = "0xA"
    /\ provider = TRUE
    /\ signer = "0xA"
    /\ loading = FALSE
    /\ error = ""
    /\ success = ""
    /\ formData \in FormInputs
    /\ currentUserData = NoData
    /\ searchAddress = ""
    /\ searchedUserData = NoData
    /\ users = [a \in Accounts |-> NoUser]
    /\ hasEthereum = TRUE
    /\ timer = NoTimer
    /\ conn = NoConn
    /\ sub = SubIdle
    /\ srch = SrchIdle
    /\ curOwner = ""
    /\ sinceSet = 0
    /\ lastCall = ""

NextSubmit ==
    \/ addUserInfoRejected
    \/ addUserInfoCall
    \/ \E err \in Faults : addUserInfoSendFails(err)
    \/ addUserInfoSent
    \/ \E err \in Faults : addUserInfoWaitFails(err)
    \/ addUserInfoConfirmed
    \/ \E ok \in BOOLEAN : addUserInfoLoaded(ok)
    \/ clearMessages

SpecSubmit == InitSubmit /\ [][NextSubmit]_vars

\* Sanitation on longer texts: the same connected session, in which the user
\* has typed a name or a bio of up to MaxSanitizeLen characters beside
\* otherwise valid fields.
MaxSanitizeLen == 3

SanitizeInputs == Strings({"a", SP, ZWSP, BOM}, MaxSanitizeLen)

InitSanitize ==
    /\ account = "0xA"
    /\ contract = "0xA"
    /\ provider = TRUE
    /\ signer = "0xA"
    /\ loading = FALSE
    /\ error = ""
    /\ success = ""
    /\ \E t \in SanitizeInputs :
          \/ formData = [name |-> t, age |-> <<"1">>, profession |-> <<"p">>, bio |-> <<"q">>]
          \/ formData = [name |-> <<"a">>, age |-> <<"1">>, profession |-> <<"p">>, bio |-> t]
    /\ currentUserData = NoData
    /\ searchAddress = ""
    /\ searchedUserData = NoData
    /\ users = [a \in Accounts |-> NoUser]
    /\ hasEthereum = TRUE
    /\ timer = NoTimer
    /\ conn = NoConn
    /\ sub = SubIdle
    /\ srch = SrchIdle
    /\ curOwner = ""
    /\ sinceSet = 0
    /\ lastCall = ""

SpecSanitize == InitSanitize /\ [][NextSubmit]_vars

\* Submitting again: a session connected as 0xA with an empty form, in which
\* the user types one of several valid records, submits, may search, and
\* types and submits again.  The storage already holds the record that an
\* earlier session of 0xB has written.
ResubmitNames == { <<"a">>, <<"b">> }
ResubmitAges == { <<"1">>, <<"5">> }
OtherRecord == [name |-> <<"c">>, age |-> 9, profession |-> <<"p">>, bio |-> <<"q">>]

InitResubmit ==
    /\ account = "0xA"
    /\ contract = "0xA"
    /\ provider = TRUE
    /\ signer = "0xA"
    /\ loading = FALSE
    /\ error = ""
    /\ success = ""
    /\ formData = EmptyForm
    /\ currentUserData = NoData
    /\ searchAddress = ""
    /\ searchedUserData = NoData
    /\ users = [a \in Accounts |-> IF a = "0xB" THEN OtherRecord ELSE NoUser]
    /\ hasEthereum = TRUE
    /\ timer = NoTimer
    /\ conn = NoConn
    /\ sub = SubIdle
    /\ srch = SrchIdle
    /\ curOwner = ""
    /\ sinceSet = 0
    /\ lastCall = ""

NextResubmit ==
    \/ \E v \in ResubmitNames : ChangeName(v)
    \/ \E v \in ResubmitAges : ChangeAge(v)
    \/ \E v \in ProfessionInputs : ChangeProfession(v)
    \/ \E v \in BioInputs : ChangeBio(v)
    \/ \E v \in Accounts : ChangeSearchAddress(v)
    \/ addUserInfoRejected
    \/ addUserInfoCall
    \/ \E err \in FaultInputs : addUserInfoSendFails(err)
    \/ addUserInfoSent
    \/ \E err \in FaultInputs : addUserInfoWaitFails(err)
    \/ addUserInfoConfirmed
    \/ \E ok \in BOOLEAN : addUserInfoLoaded(ok)
    \/ searchUserIgnored
    \/ searchUserCall
    \/ \E ok \in BOOLEAN : searchUserLoaded(ok)
    \/ clearMessages

SpecResubmit == InitResubmit /\ [][NextResubmit]_vars

----------------------------------------------------------------------------
(* Claims *)

\* a form the claims call invalid: a text field empty after sanitation, or an
\* age that Number.parseInt reads as NaN or as a number outside 1..150
InvalidForm(f) ==
    \/ Sanitize(f.name) = <<>>
    \/ Sanitize(f.profession) = <<>>
    \/ Sanitize(f.bio) = <<>>
    \/ parseInt(f.age) \notin 1..150

\* C1: a submit of an invalid form issues no upsert (no call is pending after
\* it and the storage is untouched), sets an error message, leaves loading
\* false and leaves the four form fields as the user entered them.
C1_InvalidSubmitRejected ==
    [][(addUserInfo /\ InvalidForm(formData)) =>
          /\ sub.pc = "idle" /\ sub' = sub
          /\ users' = users
          /\ error' # ""
          /\ ~loading /\ ~loading'
          /\ formData' = formData]_vars

\* an age of 151 has been rejected and is still in the form
C1_Witness ==
    /\ parseInt(formData.age) = 151
    /\ Sanitize(formData.name) # <<>>
    /\ error = MsgAgeInvalid
    /\ ~loading
    /\ sub.pc = "idle"

\* the four values a submit of form f is to pass on
SanitizedValues(f) ==
    [name       |-> Sanitize(f.name),
     age        |-> parseInt(f.age),
     profession |-> Sanitize(f.profession),
     bio        |-> Sanitize(f.bio)]

\* a step that sends an upsert to the wallet
UpsertIssued == sub'.pc = "sending" /\ sub.pc # "sending"

\* the last step of a submit: the refresh read is over and the handler returns
SubmitFinishes == sub.pc = "reading" /\ sub'.pc = "idle"

\* C2 as stated: a submit of a valid form issues one upsert with the sanitized
\* values, and when the handler of a confirmed submit has finished,
\* currentUserData holds those values.
C2_AsStated ==
    [][/\ (addUserInfo /\ ~NotConnected /\ ~InvalidForm(formData)) =>
            /\ sub.pc = "idle" /\ sub'.pc = "sending"
            /\ sub'.args = SanitizedValues(formData)
       /\ (sub.pc # "idle" /\ sub'.pc # "idle") => sub'.args = sub.args
       /\ UpsertIssued => (sub.pc = "idle" /\ addUserInfo)
       /\ SubmitFinishes => currentUserData' = sub.args]_vars

\* C2 as amended: the same, except that currentUserData holds the values when
\* the refresh read was answered and is null when the refresh read threw.
C2_ValidSubmitShown ==
    [][/\ (~NotConnected /\ ~loading /\ formData' = formData /\ lastCall' = ""
              /\ conn' = conn /\ ~InvalidForm(formData) /\ addUserInfo) =>
            /\ sub.pc = "idle" /\ sub'.pc = "sending"
            /\ sub'.args = SanitizedValues(formData)
       /\ (sub.pc # "idle" /\ sub'.pc # "idle") => sub'.args = sub.args
       /\ UpsertIssued => (sub.pc = "idle" /\ addUserInfo)
       /\ (sub.pc = "waiting" /\ sub'.pc = "reading") => users'[sub.account] = sub.args
       /\ (SubmitFinishes /\ addUserInfoLoaded(TRUE)) => currentUserData' = sub.args
       /\ (SubmitFinishes /\ ~addUserInfoLoaded(TRUE)) => currentUserData' = NoData]_vars

\* a confirmed submit of " a<ZWSP>" has finished and the view shows "a"
C2_Witness ==
    /\ sub.pc = "idle"
    /\ success = MsgAdded
    /\ formData = EmptyForm
    /\ account # ""
    /\ curOwner = account
    /\ currentUserData = [name |-> <<"a">>, age |-> 1, profession |-> <<"p">>, bio |-> <<"q">>]

\* C3: the success message of a submit appears only in the step in which its
\* transaction is confirmed (applied to the storage), never while the
\* transaction is merely sent and never in the step in which tx.wait() throws.
C3_SuccessOnlyOnConfirmation ==
    [][(success' = MsgAdded /\ success # MsgAdded) =>
          /\ sub.pc = "waiting" /\ sub'.pc = "reading"
          /\ users'[sub.contract] = sub.args]_vars

\* the success message is showing and the refresh read is under way
C3_Witness ==
    /\ success = MsgAdded
    /\ sub.pc = "reading"
    /\ users[sub.contract] = sub.args

\* C4 as stated: the error message and the success message are never both
\* non-empty.
C4_AtMostOneMessage == ~(error # "" /\ success # "")

MessageShowing == error # "" \/ success # ""

\* C5 as stated: no message is visible longer than 5 units after the last set
\* of a message.
C5_ClearedWithinDuration == MessageShowing => sinceSet <= 5

\* C6 as stated: every set of a message starts a fresh 5-unit countdown, also
\* a set of the text already showing: while no time has passed since the last
\* set, the timer has its full 5 units left.
C6_EverySetRestartsCountdown == (MessageShowing /\ sinceSet = 0) => timer = 5

\* the step of disconnectWallet: the only one that empties account
Disconnects == account # "" /\ account' = ""

\* C7: disconnect is possible whenever a session is connected, starts and
\* answers no call, leaves the storage alone, and leaves the session, both
\* views, the search address and the form empty.
C7_DisconnectClears ==
    [][/\ account # "" => ENABLED disconnectWallet
       /\ Disconnects =>
            /\ contract' = Null /\ signer' = Null /\ provider' = FALSE
            /\ currentUserData' = NoData /\ searchedUserData' = NoData
            /\ searchAddress' = ""
            /\ formData' = EmptyForm
            /\ conn' = conn /\ sub' = sub /\ srch' = srch
            /\ users' = users]_vars

\* disconnected, with a filled-in form and a record on display just before
C7_Witness ==
    /\ account = ""
    /\ success = MsgDisconnected
    /\ formData = EmptyForm
    /\ users["0xA"] # NoUser
    /\ sub.pc = "waiting"

\* the step in which connectWallet sets the session of a disconnected component
Connects == account = "" /\ account' # ""

\* C8 as stated: a session that starts after a disconnect has an empty form,
\* an empty search address, no search result, and an own-profile view that
\* holds nothing but what was read for the new account.
C8_NoResidualData ==
    [][/\ Connects =>
            /\ formData' = EmptyForm
            /\ searchAddress' = ""
            /\ searchedUserData' = NoData
            /\ currentUserData' = NoData
       /\ (account' # "" /\ currentUserData' # NoData) => curOwner' = account']_vars

\* C9 as stated: currentUserData is null while no session is connected, and
\* when present it was read for the connected account.
C9_OwnViewOfOwnAccount ==
    /\ account = "" => currentUserData = NoData
    /\ currentUserData # NoData => curOwner = account

\* a well-formed account identifier, as the claims use the word
WellFormed(a) == a \in {"0xA", "0xB"}

\* a step that is a call of searchUser on an address that is not well-formed
SearchOfMalformed == lastCall' = "searchUser" /\ ~WellFormed(searchAddress)

SearchReadEnds == srch.pc = "reading" /\ srch'.pc = "idle"

\* the step in which the own-profile read of a connect for account a ends
ConnectReadEnds(a) == conn'.read[a] < conn.read[a]

\* C11: a record that was written never has an empty name, so the default
\* record is that of an address never written.  A load of such an address,
\* by a search or by the read at connect, ends with the view null and with
\* both messages as they were; and a load ends with the view populated
\* exactly when the read returned a tuple whose name is non-empty.
C11_AbsentIsNotAnError ==
    [][/\ \A a \in Accounts : users'[a] # users[a] => users'[a].name # <<>>
       /\ SearchReadEnds =>
            /\ users[srch.address] = NoUser => searchedUserData' = NoData
            /\ error' = error /\ success' = success
            /\ searchedUserData' # NoData <=>
                    (searchUserLoaded(TRUE) /\ users[srch.address].name # <<>>)
       /\ \A a \in Accounts : ConnectReadEnds(a) =>
            /\ users[a] = NoUser => currentUserData' = NoData
            /\ error' = error /\ success' = success
            /\ currentUserData' # NoData <=>
                    (connectWalletLoaded(a, TRUE) /\ users[a].name # <<>>)]_vars

\* a search of 0xB, which has no record while 0xA has one, has just ended
\* with no result and no error
C11_Witness ==
    /\ lastCall = "loadUserData"
    /\ searchAddress = "0xB"
    /\ users["0xB"] = NoUser
    /\ users["0xA"] # NoUser
    /\ searchedUserData = NoData
    /\ error = ""
    /\ ~loading

\* a step of searchUser or of the loadUserData it awaits
SearchStep == lastCall' \in {"searchUser", "loadUserData"}

\* a step of addUserInfo that returns before the try block
SubmitRejected ==
    /\ ~loading /\ account # ""
    /\ error' # "" /\ lastCall' = ""
    /\ sub' = sub /\ conn' = conn /\ srch' = srch
    /\ formData' = formData /\ account' = account /\ searchAddress' = searchAddress
    /\ addUserInfoRejected

\* a step of addUserInfo or of the loadUserDataForCurrentUser it awaits
SubmitStep == sub' # sub \/ SubmitRejected

\* the end of an own-profile read, at connect or after a confirmed submit
OwnReadEnds ==
    \/ \E a \in Accounts : ConnectReadEnds(a)
    \/ sub.pc = "reading" /\ sub'.pc = "idle"

\* a step of searchUser that starts the read
SearchIssued == srch.pc = "idle" /\ srch'.pc = "reading"

\* a step of searchUser that returns at its address check
SearchRejected == lastCall' = "searchUser" /\ searchUserInvalid

\* the messages addUserInfo sets, and the one searchUser sets
SubmitErrors == {MsgConnectFirst, MsgNameEmpty, MsgProfEmpty, MsgBioEmpty, MsgAgeInvalid,
                 MsgInvalidInput, MsgTxFailed, MsgRejected, MsgFunds, MsgAddFailed}
SearchErrors == {MsgBadAddress}

\* the results of the two views do not interfere: a search step leaves the
\* own-profile view alone; a submit step and the end of an own-profile read
\* leave the search result and the search address alone; the search result
\* changes only in a search step or in a disconnect
ViewsApart ==
    /\ SearchStep => (currentUserData' = currentUserData /\ curOwner' = curOwner)
    /\ (SubmitStep \/ OwnReadEnds) =>
          (searchedUserData' = searchedUserData /\ searchAddress' = searchAddress)
    /\ searchedUserData' # searchedUserData => (SearchStep \/ Disconnects)

\* C12 as stated: the results do not interfere, and an error message of the
\* submit side is neither cleared nor replaced by a search step, nor one of
\* the search by a submit step.
C12_AsStated ==
    [][/\ ViewsApart
       /\ (SearchStep /\ error \in SubmitErrors) => error' = error
       /\ (SubmitStep /\ error \in SearchErrors) => error' = error]_vars

\* C12 as amended: the results do not interfere and a read that ends, answered
\* or thrown, sets no message; the error message is one cell for both sides:
\* a search of a malformed non-empty address and a rejected submit set it
\* whatever it held, and the start of a read or of an upsert empties it.
C12_ViewsDoNotInterfere ==
    [][/\ ViewsApart
       /\ (SearchReadEnds \/ OwnReadEnds) => (error' = error /\ success' = success)
       /\ SearchRejected => error' = MsgBadAddress
       /\ SubmitRejected => error' \in SubmitErrors
       /\ (SearchIssued \/ UpsertIssued) => error' = ""]_vars

\* a search of 0xB has just ended without a result under the own record of
\* 0xA, which is still on display
C12_Witness ==
    /\ lastCall = "loadUserData"
    /\ account = "0xA"
    /\ searchAddress = "0xB"
    /\ searchedUserData = NoData
    /\ currentUserData # NoData
    /\ curOwner = "0xA"

\* the step in which contract.addUserInfo or tx.wait() throws
SubmitFails == sub.pc \in {"sending", "waiting"} /\ sub'.pc = "idle"

\* C13: when the upsert call or the confirmation wait fails, the handler ends
\* with loading false and one of its error messages set; the success message,
\* the form, the own-profile view and the storage stay as they were, and no
\* read is started.
C13_FailedSubmitKeepsData ==
    [][SubmitFails =>
          /\ error' # "" /\ error' \in SubmitErrors
          /\ success' = success
          /\ ~loading'
          /\ formData' = formData
          /\ currentUserData' = currentUserData /\ curOwner' = curOwner
          /\ users' = users
          /\ conn' = conn /\ srch' = srch]_vars

\* a second submit was rejected by the user: the form still holds what was
\* typed and the view still shows the record of the first submit
C13_Witness ==
    /\ error = MsgRejected
    /\ sub.pc = "idle"
    /\ ~loading
    /\ formData # EmptyForm
    /\ account = "0xA"
    /\ curOwner = "0xA"
    /\ currentUserData # NoData
    /\ users["0xA"] = [name |-> <<"a">>, age |-> 1, profession |-> <<"p">>, bio |-> <<"q">>]

\* the last step of a submit that follows an earlier one with different data:
\* the record the earlier submit put on display is still there and differs
LaterSubmitFinishes ==
    /\ SubmitFinishes
    /\ currentUserData # NoData
    /\ currentUserData # sub.args

\* C14 as stated: once the later of two submits is confirmed and its handler
\* has finished, the own-profile view holds the later values.
C14_AsStated ==
    [][LaterSubmitFinishes => currentUserData' = sub.args]_vars

\* C14 as amended: a confirmed upsert replaces the account's record by its
\* values; when the later submit's handler finishes the storage holds the
\* later values, and the view holds exactly them when the refresh read was
\* answered and is null when it threw: in no case a value of the earlier.
C14_LastWriteWins ==
    [][/\ (sub.pc = "waiting" /\ sub'.pc = "reading") =>
            users' = [users EXCEPT ![sub.account] = sub.args]
       /\ LaterSubmitFinishes =>
            /\ users[sub.account] = sub.args
            /\ addUserInfoLoaded(TRUE) => currentUserData' = sub.args
            /\ ~addUserInfoLoaded(TRUE) => currentUserData' = NoData]_vars

\* the earlier record (a, 1) was confirmed and has since been found by a
\* search of the own address; the later submit of (b, 5) has finished and the
\* own view shows it
C14_Witness ==
    /\ sub.pc = "idle"
    /\ ~loading
    /\ searchedUserData = [name |-> <<"a">>, age |-> 1, profession |-> <<"p">>, bio |-> <<"q">>]
    /\ currentUserData = [name |-> <<"b">>, age |-> 5, profession |-> <<"p">>, bio |-> <<"q">>]
    /\ users["0xA"] = currentUserData
    /\ formData = EmptyForm

\* the step in which the contract applies an upsert
UpsertApplied == sub.pc = "waiting" /\ sub'.pc = "reading"

\* C15: the storage changes only when an upsert is applied; the upsert of
\* sender A leaves A's record equal to the four submitted values, whatever
\* it held, and the record of every other account as it was; the end of a
\* read, by a search or for the own profile, changes no record.
C15_UpsertWritesOwnRecordOnly ==
    [][/\ users' # users => UpsertApplied
       /\ UpsertApplied =>
            /\ users'[sub.contract] = sub.args
            /\ \A b \in Accounts \ {sub.contract} : users'[b] = users[b]
       /\ (SearchReadEnds \/ OwnReadEnds \/ SearchIssued) => users' = users]_vars

\* the second upsert of 0xA has just been applied over the record (a, 1),
\* which is still on display, and the record of 0xB is as it was
C15_Witness ==
    /\ sub.pc = "reading"
    /\ sub.contract = "0xA"
    /\ currentUserData = [name |-> <<"a">>, age |-> 1, profession |-> <<"p">>, bio |-> <<"q">>]
    /\ users["0xA"] = [name |-> <<"b">>, age |-> 5, profession |-> <<"p">>, bio |-> <<"q">>]
    /\ users["0xB"] = OtherRecord
    /\ searchedUserData = OtherRecord

\* the step in which a connectWallet ends in failure: no window.ethereum, the
\* account request declined, or getSigner failing
ConnectFails ==
    \/ ~hasEthereum /\ connectWalletNoProvider
    \/ conn'.req < conn.req /\ Sum(conn'.sign) = Sum(conn.sign)
    \/ Sum(conn'.sign) < Sum(conn.sign) /\ Sum(conn'.read) = Sum(conn.read)

\* C16: a connectWallet that fails sets one of its two error messages and
\* nothing else: the session, both views and the storage are as they were, so
\* a disconnected session with an absent own-profile view stays that, and no
\* read, upsert or further wallet request is started.
C16_FailedConnectStaysDisconnected ==
    [][ConnectFails =>
          /\ error' \in {MsgInstall, MsgConnectFailed}
          /\ session' = session /\ views' = views
          /\ (account = "" /\ currentUserData = NoData) =>
                /\ account' = "" /\ contract' = Null /\ signer' = Null /\ provider' = FALSE
                /\ currentUserData' = NoData
          /\ users' = users /\ sub' = sub /\ srch' = srch
          /\ ConnCount' <= ConnCount /\ Sum(conn'.read) = Sum(conn.read)]_vars

\* no wallet is installed and a connect has said so
C16_Witness ==
    /\ ~hasEthereum
    /\ error = MsgInstall
    /\ account = "" /\ contract = Null /\ signer = Null /\ provider = FALSE
    /\ currentUserData = NoData
    /\ conn = NoConn

\* the end of a read that has thrown: the record read has a name, yet the
\* view it was read for is left null
SearchReadThrew ==
    SearchReadEnds /\ users[srch.address].name # <<>> /\ searchedUserData' = NoData
OwnReadThrew ==
    \/ \E a \in Accounts :
          ConnectReadEnds(a) /\ users[a].name # <<>> /\ currentUserData' = NoData
    \/ SubmitFinishes /\ users[sub.account].name # <<>> /\ currentUserData' = NoData

\* C17 as stated: a read that throws, for a search or for the own profile,
\* leaves a non-empty error message.
C17_ReadErrorsSurfaced ==
    [][(SearchReadThrew \/ OwnReadThrew) => error' # ""]_vars

\* C18: a call to the contract or the wallet starts only in the first
\* segment of a handler the user has triggered or as the next call of a
\* handler whose previous call succeeded.  An upsert is sent only by a step of
\* addUserInfo from idle, and a submit passes through sending, waiting and
\* reading at most once each; a search's read starts only by a step of
\* searchUser and ends once; a wallet request starts only by a step of
\* connectWallet.  A failure ends its handler and starts no call.
C18_NoAutomaticRetry ==
    [][/\ UpsertIssued => (sub.pc = "idle" /\ addUserInfoCall)
       /\ sub.pc = "sending" => sub'.pc \in {"sending", "waiting", "idle"}
       /\ sub.pc = "waiting" => sub'.pc \in {"waiting", "reading", "idle"}
       /\ sub.pc = "reading" => sub'.pc \in {"reading", "idle"}
       /\ SearchIssued => searchUserCall
       /\ srch.pc = "reading" => srch'.pc \in {"reading", "idle"}
       /\ ConnCount' > ConnCount => (ConnCount' = ConnCount + 1 /\ connectWalletRequest)
       /\ SubmitFails => (sub' = SubIdle /\ srch' = srch /\ conn' = conn)
       /\ (SearchReadEnds \/ SearchRejected) => (sub' = sub /\ conn' = conn)
       /\ ConnectFails => (ConnCount' <= ConnCount /\ sub' = sub /\ srch' = srch)]_vars

\* the user has rejected the only transaction of the session: nothing was
\* written and no call is pending
C18_Witness ==
    /\ error = MsgRejected
    /\ account = "0xA"
    /\ users = [a \in Accounts |-> NoUser]
    /\ sub.pc = "idle"
    /\ srch.pc = "idle"
    /\ conn = NoConn
    /\ ~loading

\* the step in which addUserInfo returns after its try block was entered
SubmitReturns == sub.pc # "idle" /\ sub'.pc = "idle"

\* C19: loading is set exactly while a submit or a search is suspended; a
\* submit that has entered its try block eventually returns with loading
\* false, and the step in which it returns is either the end of the refresh
\* read of a confirmed upsert or a failure that sets an error message.
C19_SubmitReturnsToIdle ==
    /\ [](loading <=> (sub.pc # "idle" \/ srch.pc # "idle"))
    /\ (sub.pc # "idle") ~> (sub.pc = "idle" /\ ~loading)
    /\ [][SubmitReturns =>
            /\ ~loading'
            /\ SubmitFinishes \/ SubmitFails
            /\ SubmitFinishes => users[sub.contract] # NoUser
            /\ SubmitFails => error' \in SubmitErrors]_vars

\* a submit that was under way when the wallet was disconnected has been
\* confirmed and has returned
C19_Witness ==
    /\ account = ""
    /\ success = MsgAdded
    /\ users["0xA"] # NoUser
    /\ sub.pc = "idle"
    /\ ~loading

\* C20: the step in which an upsert is confirmed starts the read of the
\* account the submit was made from, and a submit's read starts in no other
\* step; the step in which that read ends, answered or thrown, leaves all
\* four form fields empty and ends the handler.
C20_ConfirmedSubmitReadsThenClears ==
    [][/\ UpsertApplied => (sub'.pc = "reading" /\ sub'.account = sub.account)
       /\ (sub'.pc = "reading" /\ sub.pc # "reading") => UpsertApplied
       /\ sub.pc = "reading" => sub'.pc \in {"reading", "idle"}
       /\ SubmitFinishes =>
            /\ formData' = EmptyForm
            /\ currentUserData' \in {ToUserData(users[sub.account]), NoData}
            /\ sub' = SubIdle]_vars

\* an upsert was confirmed, its refresh read threw, and the form is empty
C20_Witness ==
    /\ success = MsgAdded
    /\ account = "0xA"
    /\ users["0xA"] # NoUser
    /\ currentUserData = NoData
    /\ formData = EmptyForm
    /\ sub.pc = "idle"
    /\ ~loading

\* a submit is in flight: its upsert was sent and its handler has not ended
SubmitInFlight == sub.pc \in {"sending", "waiting", "reading"}

\* C21: loading is true in every state in which a submit is in flight,
\* whatever the search, connect, disconnect and timer steps in between; an
\* upsert is sent only while none is in flight and loading is false; a
\* search's read neither starts nor ends while a submit is in flight, so no
\* search clears loading under a running submit.
C21_LoadingWhileSubmitInFlight ==
    /\ [](SubmitInFlight => loading)
    /\ [][/\ UpsertIssued => (~SubmitInFlight /\ ~loading)
          /\ (SearchIssued \/ SearchReadEnds) => (~SubmitInFlight /\ sub' = sub)
          /\ (SubmitInFlight /\ loading' # loading) => SubmitReturns]_vars

\* a submit made as 0xA is still waiting for its confirmation, loading set,
\* after a disconnect, a connect as 0xB and the expiry of the messages
C21_Witness ==
    /\ sub.pc = "waiting"
    /\ sub.account = "0xA"
    /\ account = "0xB"
    /\ loading
    /\ error = "" /\ success = ""
    /\ timer = NoTimer
    /\ srch.pc = "idle"

\* the four session cells all set, for one account; and all four clear
SessionSet ==
    /\ account \in Accounts
    /\ contract = account /\ signer = account /\ provider = TRUE
SessionClear ==
    /\ account = ""
    /\ contract = Null /\ signer = Null /\ provider = FALSE

\* C22: in every state the four session cells are either all set or all
\* clear; they change only in the step in which a connectWallet succeeds,
\* which leaves all four set, and in the step of disconnectWallet, which
\* leaves all four clear; a connectWallet that fails changes none of them.
C22_SessionFieldsConsistent ==
    /\ [](SessionSet \/ SessionClear)
    /\ [][/\ session' # session =>
               \/ Disconnects /\ SessionClear'
               \/ Sum(conn'.sign) < Sum(conn.sign) /\ Sum(conn'.read) > Sum(conn.read)
                     /\ SessionSet'
          /\ ConnectFails => session' = session]_vars

\* a second session, connected as 0xB after 0xA has written its record and
\* disconnected
C22_Witness ==
    /\ account = "0xB" /\ contract = "0xB" /\ signer = "0xB" /\ provider = TRUE
    /\ success = MsgConnected
    /\ users["0xA"] # NoUser
    /\ users["0xB"] = NoUser

\* a text with no white space at either end and no zero-width code point
FullySanitized(s) ==
    /\ s # <<>> => (~IsWhiteSpace(Head(s)) /\ ~IsWhiteSpace(s[Len(s)]))
    /\ \A i \in 1..Len(s) : ~IsZeroWidth(s[i])

\* a text made of white space and zero-width code points only
OnlyBlank(s) == \A i \in 1..Len(s) : IsWhiteSpace(s[i]) \/ IsZeroWidth(s[i])

\* C23 as stated: every text value passed to the upsert is fully sanitized
\* and is left as it is by a second sanitation; and a submit of a form with a
\* text field made only of white space and zero-width code points is
\* rejected with an error and sends nothing.
C23_SanitationComplete ==
    /\ [](SubmitInFlight =>
            \A v \in {sub.args.name, sub.args.profession, sub.args.bio} :
                FullySanitized(v) /\ Sanitize(v) = v)
    /\ [][(addUserInfo /\ (OnlyBlank(formData.name) \/ OnlyBlank(formData.profession)
                             \/ OnlyBlank(formData.bio))) =>
             (error' # "" /\ sub' = sub /\ sub.pc = "idle")]_vars

====
